---- MODULE Spec2Model ----
(***************************************************************************)
(* Model of thinnect/euisiggen: the EUI-64 ledger (euigen's generate,      *)
(* usersiggen's getEui / markEui), the board flow of usersiggen's main,    *)
(* the device-signature record codec and the license generator.            *)
(*                                                                         *)
(* Text is modelled at the granularity the code reads it: a file is a      *)
(* sequence of lines (bufio.Scanner), a line is what strings.TrimSpace,    *)
(* strings.HasPrefix(t, "#") and strings.Split(t, ",") see of it.          *)
(* A 64-bit identifier is four 16-bit limbs, most significant first.       *)
(***************************************************************************)
EXTENDS Naturals, Sequences, FiniteSets, TLC

VARIABLES
    ledger,   \* the file at the ledger path (opts.Euifile)
    temp,     \* the files eui_temp_<unix_time>.txt beside the ledger
    call,     \* the last ledger operation: its arguments, the ledger before it, its result
    used,     \* identifiers that markEui has written an annotation for
    gen,      \* the range the ledger was generated for, if generate wrote it
    sig,      \* the files EUI-64_<id>.bin of the signature directory
    bak,      \* the files EUI-64_<id>.bin.bak of the signature directory
    output,   \* the output file (opts.Output)
    run,      \* the invocations of usersiggen: where each is in main
    wrote,    \* <<run, id, override>>: the run wrote id's records into a signature file
    version,  \* the usersiggen the runs execute: "3.0.1" or "3.0.0"
    origin,   \* the ledger the runs started from
    blob,     \* the bytes of the signature file that readSigsFromFile is given
    parts,    \* what blob was put together from: the records, the trailing
              \* bytes, the invocations of usersiggen that wrote to it, a
              \* record damaged in storage or written by another program
    codec,    \* the last call of the record codec: its input and its result
    lic       \* the license generator: its invocation, its clock, its files

poolVars == <<ledger, temp, call, used, gen>>
sysVars == <<sig, bak, output, run, wrote, version, origin>>
codecVars == <<blob, parts, codec>>
licVars == <<lic>>
vars == <<ledger, temp, call, used, gen, sig, bak, output, run, wrote,
          version, origin, blob, parts, codec, lic>>

-----------------------------------------------------------------------------
(* Bounds of the model *)

\* longest ledger (in lines) handed to getEui / markEui
MaxLines == 3
\* number of distinct signature timestamps (seconds) a run can carry
MaxTime == 2
\* invocations of usersiggen, one after another
MaxRuns == 3
\* records written to a signature file
MaxRecords == 2
\* number of consecutive identifiers the generated ranges are drawn from
GenSpan == 4
Times == 1..MaxTime

-----------------------------------------------------------------------------
(* 64-bit identifiers: type eui64 uint64 *)

Limb == 65536

\* 0x000000000001FFFD: the first identifier of the window the generated
\* ranges are drawn from; the window crosses ...FFFF and ...0000
GenBase == <<0, 0, 1, 65533>>

\* the identifiers of the spec's ledger example
EuiA1 == <<43690, 43690, 43690, 43681>>
EuiA2 == <<43690, 43690, 43690, 43682>>

ZeroEui == <<0, 0, 0, 0>>

\* current++ on a uint64
IncEui(e) ==
    IF e[4] + 1 < Limb THEN <<e[1], e[2], e[3], e[4] + 1>>
    ELSE IF e[3] + 1 < Limb THEN <<e[1], e[2], e[3] + 1, 0>>
    ELSE IF e[2] + 1 < Limb THEN <<e[1], e[2] + 1, 0, 0>>
    ELSE IF e[1] + 1 < Limb THEN <<e[1] + 1, 0, 0, 0>>
    ELSE ZeroEui

\* current <= last on uint64
LeqEui(a, b) ==
    \/ a[1] < b[1]
    \/ a[1] = b[1] /\ a[2] < b[2]
    \/ a[1] = b[1] /\ a[2] = b[2] /\ a[3] < b[3]
    \/ a[1] = b[1] /\ a[2] = b[2] /\ a[3] = b[3] /\ a[4] <= b[4]

\* uint16(current)
Short(e) == e[4]

RECURSIVE PlusEui(_, _)
PlusEui(e, k) == IF k = 0 THEN e ELSE PlusEui(IncEui(e), k - 1)

GenWindow == { PlusEui(GenBase, k) : k \in 0..GenSpan }

\* every identifier that occurs as text in the model
EuiUniverse == GenWindow \cup {EuiA1, EuiA2, ZeroEui}

HexDigit == <<"0", "1", "2", "3", "4", "5", "6", "7",
              "8", "9", "A", "B", "C", "D", "E", "F">>

RECURSIVE HexN(_, _)
HexN(n, w) ==
    IF w = 0 THEN "" ELSE HexN(n \div 16, w - 1) \o HexDigit[(n % 16) + 1]

\* fmt.Sprintf("%016X", eui)
Hex16(e) == HexN(e[1], 4) \o HexN(e[2], 4) \o HexN(e[3], 4) \o HexN(e[4], 4)

\* a 16-character text that strconv.ParseUint(s, 16, 64) rejects
NotHex16 == "EUI-64-NOT-VALID"

\* the texts strconv.ParseUint(s, 16, 64) accepts, with their values
HexTable == [e \in EuiUniverse |-> Hex16(e)]
HexTexts == { HexTable[e] : e \in EuiUniverse }

\* func parseEui(s string) (eui64, error)
parseEui(s) ==
    IF Len(s) # 16 THEN [err |-> "InvalidEui", eui |-> ZeroEui]
    ELSE IF s \in HexTexts
         THEN [err |-> "", eui |-> CHOOSE e \in EuiUniverse : HexTable[e] = s]
         ELSE [err |-> "InvalidEui", eui |-> ZeroEui]

-----------------------------------------------------------------------------
(* Ledger text *)

\* A line of text: pad = it has leading or trailing white space, hash = its
\* first non-blank character is '#', f = its comma-separated fields.
DataLine(f) == [pad |-> FALSE, hash |-> FALSE, f |-> f]
PadLine(f) == [pad |-> TRUE, hash |-> FALSE, f |-> f]
CommentLine(s) == [pad |-> FALSE, hash |-> TRUE, f |-> <<s>>]

\* strings.TrimSpace(scanner.Text())
TrimSpace(line) == [line EXCEPT !.pad = FALSE]
\* strings.HasPrefix(t, "#")
HasPrefixHash(t) == t.hash
\* strings.Split(t, ",")
Split(t) == t.f

\* a plausible slip: any line with at most one comma counts as unannotated
UnannotatedAnySecondField(splits) == Len(splits) <= 2

\* len(splits) == 1 || (len(splits) == 2 && len(splits[1]) == 0)
Unannotated(splits) ==
    Len(splits) = 1 \/ (Len(splits) = 2 /\ Len(splits[2]) = 0)

Absent == [ex |-> FALSE, lines |-> <<>>]
File(lines) == [ex |-> TRUE, lines |-> lines]

-----------------------------------------------------------------------------
(* euigen: generate *)

\* a plausible slip: only the all-zero value is reserved
ReservedShortOnlyZero(short) == short = 0

\* short == 0 || short == 0xFFFF
ReservedShort(short) == short = 0 \/ short = Limb - 1

\* the line of one pass: "%s,RESERVED\n" or "%s,\n"
GenLine(current) ==
    IF ReservedShort(Short(current))
    THEN DataLine(<<Hex16(current), "RESERVED">>)
    ELSE DataLine(<<Hex16(current), "">>)

RECURSIVE GenLoop(_, _, _, _)
GenLoop(current, last, out, fuel) ==
    IF ~LeqEui(current, last) \/ fuel = 0 THEN out
    ELSE GenLoop(IncEui(current), last, Append(out, GenLine(current)),
                 fuel - 1)

\* the lines generate writes to euifile: the range comment, then one line
\* per identifier
generate(first, last) ==
    GenLoop(first, last, <<CommentLine("# EUI-64 range")>>, GenSpan + 2)

-----------------------------------------------------------------------------
(* usersiggen: getEui *)

RECURSIVE GetLoop(_, _)
GetLoop(lines, i) ==
    IF i > Len(lines)
    THEN [err |-> "PoolExhausted", eui |-> ZeroEui]
    ELSE LET t == TrimSpace(lines[i])
             splits == Split(t)
         IN IF ~HasPrefixHash(t) /\ Unannotated(splits)
            THEN parseEui(splits[1])
            ELSE GetLoop(lines, i + 1)

getEui(file) ==
    IF ~file.ex THEN [err |-> "IOFailure", eui |-> ZeroEui]
    ELSE GetLoop(file.lines, 1)

-----------------------------------------------------------------------------
(* usersiggen: markEui *)

\* the signatures markEui is handed: esig.Eui64, esig.Unix_time and the
\* fields of csig that go into the annotation
EuiSig(eui, time) == [Eui64 |-> eui, Unix_time |-> time]
CompSig(name, time) == [Name |-> name, Unix_time |-> time]

\* fmt.Sprintf("%s,%s,%d,%x,%x", csig.BoardName(), csig.BoardVersion(),
\*             csig.Unix_time, csig.Component_uuid, csig.Manufacturer_uuid)
\* as the fields it adds to the line
Annotation(csig) ==
    << csig.Name, "1.0.0", ToString(csig.Unix_time),
       "6ba7b8109dad11d180b400c04fd430c8", "6ba7b8119dad11d180b400c04fd430c8" >>

\* a plausible slip: the line is written back with an empty annotation
MarkedLineNoAnnotation(splits, csig) == DataLine(<<splits[1], "">>)

\* what the loop writes for a line whose value equals esig.Eui64
MarkedLine(splits, csig) == DataLine(<<splits[1]>> \o Annotation(csig))

\* what the loop writes for an unannotated line with another value: the
\* branch only prints, and the "\n" after it leaves an empty line
UnmatchedLine(t) == DataLine(<<"">>)

\* what the loop writes for any other data line
CopiedLine(t) == t

\* the scanner loop of markEui: the lines written to the bufio.Writer, or
\* the parseEui error the loop returns with
RECURSIVE MarkLoop(_, _, _, _, _, _)
MarkLoop(lines, i, marked, out, esig, csig) ==
    IF i > Len(lines)
    THEN [err |-> "", out |-> out, marked |-> marked]
    ELSE LET t == TrimSpace(lines[i])
             splits == Split(t)
         IN IF ~HasPrefixHash(t)
            THEN IF ~marked /\ Unannotated(splits)
                 THEN LET val == parseEui(splits[1])
                      IN IF val.err # ""
                         THEN [err |-> val.err, out |-> out, marked |-> marked]
                         ELSE IF val.eui = esig.Eui64
                              THEN MarkLoop(lines, i + 1, TRUE,
                                            Append(out, MarkedLine(splits, csig)),
                                            esig, csig)
                              ELSE MarkLoop(lines, i + 1, marked,
                                            Append(out, UnmatchedLine(t)),
                                            esig, csig)
                 ELSE MarkLoop(lines, i + 1, marked,
                               Append(out, CopiedLine(t)), esig, csig)
            ELSE MarkLoop(lines, i + 1, marked,
                          Append(out, lines[i]), esig, csig)

\* The file system markEui works on: the ledger and the temporary files.
Fs(l, tmp) == [ledger |-> l, temp |-> tmp]

\* os.OpenFile(outfile, O_WRONLY|O_CREATE|O_EXCL): the empty temporary file
FsCreateTemp(fs, time) == [fs EXCEPT !.temp[time] = File(<<>>)]
\* writer.Flush(): the buffered lines reach the temporary file
FsFlushTemp(fs, time, out) == [fs EXCEPT !.temp[time] = File(out)]
\* a plausible slip: the ledger emptied in place, to be written anew
FsTruncateLedger(fs) == [fs EXCEPT !.ledger = File(<<>>)]
\* os.Remove(infile)
FsRemoveLedger(fs) == [fs EXCEPT !.ledger = Absent]
\* os.Rename(outfile, infile)
FsRenameTemp(fs, time) ==
    [fs EXCEPT !.ledger = fs.temp[time], !.temp[time] = Absent]

\* markEui from entry to return, with no other process in between
markEui(fs, esig, csig) ==
    LET time == esig.Unix_time IN
    IF ~fs.ledger.ex THEN [err |-> "IOFailure", fs |-> fs, marked |-> FALSE]
    ELSE IF fs.temp[time].ex
    THEN [err |-> "IOFailure", fs |-> fs, marked |-> FALSE]
    ELSE LET created == FsCreateTemp(fs, time)
             r == MarkLoop(fs.ledger.lines, 1, FALSE, <<>>, esig, csig)
         IN IF r.err # ""
            THEN [err |-> r.err, fs |-> created, marked |-> FALSE]
            ELSE [err |-> "",
                  fs |-> FsRenameTemp(
                             FsRemoveLedger(FsFlushTemp(created, time, r.out)),
                             time),
                  marked |-> r.marked]

-----------------------------------------------------------------------------
(* usersiggen: the state of main's invocations *)

Runs == 1..MaxRuns
\* the two invocations that run side by side
Racers == {1, 2}

\* the identifiers the invocations can come across
SysIds == {EuiA1, EuiA2}

\* an invocation that has not started
Idle == [st |-> "idle", pc |-> "start", time |-> 0, over |-> FALSE,
         eui |-> ZeroEui, in |-> Absent, marked |-> FALSE, fd |-> 0]

\* a file of the signature directory: by = the run that created it (which
\* file an open descriptor refers to), data = its content
NoBlob == [ex |-> FALSE, by |-> 0, data |-> <<>>]
\* append(esigdata, csigdata...): the two records' fields that vary
SigData(eui, time) == <<[eui |-> eui, time |-> time]>>

\* no invocation of usersiggen has run
NoRuns ==
    /\ sig = [e \in SysIds |-> NoBlob]
    /\ bak = [e \in SysIds |-> NoBlob]
    /\ output = NoBlob
    /\ run = [r \in Runs |-> Idle]
    /\ wrote = {}
    /\ version = "3.0.1"
    /\ origin = Absent

-----------------------------------------------------------------------------
(* The record codec: encoding/binary with binary.BigEndian, and crc16 *)

Byte == 256
Word == Byte * Byte

\* a plausible slip: the two bytes in little-endian order
PutUint16LittleEndian(v) == <<v % Byte, v \div Byte>>
\* binary.BigEndian.PutUint16 / Uint16
PutUint16(v) == <<v \div Byte, v % Byte>>
Uint16(b, i) == b[i] * Byte + b[i + 1]

\* binary.BigEndian.PutUint64 / Uint64 (a 64-bit value is four 16-bit limbs)
PutUint64(v) ==
    PutUint16(v[1]) \o PutUint16(v[2]) \o PutUint16(v[3]) \o PutUint16(v[4])
Uint64(b, i) ==
    <<Uint16(b, i), Uint16(b, i + 2), Uint16(b, i + 4), Uint16(b, i + 6)>>

\* a ^ b: bit by bit on 4-bit values, from those on uint8 and uint16
RECURSIVE XorBits(_, _, _)
XorBits(a, b, n) ==
    IF n = 0 THEN 0
    ELSE ((a + b) % 2) + 2 * XorBits(a \div 2, b \div 2, n - 1)
XorNibble == [a \in 0..15 |-> [b \in 0..15 |-> XorBits(a, b, 4)]]
Xor8(a, b) ==
    XorNibble[a \div 16][b \div 16] * 16 + XorNibble[a % 16][b % 16]
Xor16(a, b) ==
    Xor8(a \div Byte, b \div Byte) * Byte + Xor8(a % Byte, b % Byte)

\* crc16.Crc16: CRC-16 with the polynomial x^16 + x^12 + x^5 + 1, initial
\* value 0, most significant bit first, one table look-up per byte
CrcPoly == 4129
RECURSIVE CrcShift(_, _)
CrcShift(c, n) ==
    IF n = 0 THEN c
    ELSE CrcShift(IF c >= Word \div 2
                  THEN Xor16((c * 2) % Word, CrcPoly)
                  ELSE c * 2,
                  n - 1)
CrcTable == [i \in 0..(Byte - 1) |-> CrcShift(i * Byte, 8)]

RECURSIVE CrcFold(_, _, _)
CrcFold(bs, i, crc) ==
    IF i > Len(bs) THEN crc
    ELSE LET c == Xor16((crc * Byte) % Word,
                        CrcTable[Xor8(crc \div Byte, bs[i])])
         \* crc is a uint16
         IN IF c < Word THEN CrcFold(bs, i + 1, c) ELSE c % Word
\* a plausible slip: the checksum started after the first byte
Crc16FromSecondByte(bs) == CrcFold(bs, 2, 0)
Crc16(bs) == CrcFold(bs, 1, 0)

SIGNATURE_TYPE_EUI64 == 0
SIGNATURE_TYPE_BOARD == 1
SIGNATURE_TYPE_PLATFORM == 2
SIGNATURE_TYPE_COMPONENT == 3
MAX_SIGNATURE_LENGTH == 1024

\* binary.Size of the three structs
BaseSize == 1 + 1 + 1 + 2 + 1 + 8
EuiSize == BaseSize + 8
CompSize == BaseSize + 16 + 16 + 1 + 1 + 1 + 16 + 16 + 1 + 2

Zeros(n) == [i \in 1..n |-> 0]

\* copy(sig.Name[:], boardname): left-justified in 16 zeroed bytes
Name16(boardname) ==
    [i \in 1..16 |-> IF i <= Len(boardname) THEN boardname[i] ELSE 0]

\* a plausible slip: the two CRC bytes left out of the size
SizeWithoutCrc(size) == size
\* uint16(binary.Size(sig)) + 2
SizeWithCrc(size) == size + 2

ConstructEUISignature(t, eui) ==
    [Sig_version_major |-> 3, Sig_version_minor |-> 0,
     Sig_version_patch |-> 1,
     Signature_size |-> SizeWithCrc(EuiSize),
     Signature_type |-> SIGNATURE_TYPE_EUI64,
     Unix_time |-> t,
     Eui64 |-> eui]

\* the nil record returned beside an error, and by a panicking call
NoSig == [Signature_size |-> 0]

\* a plausible slip: a name that is too long is cut to the field's 16 bytes
TooLongNeverHappens(boardname) == FALSE
\* len(boardname) > len(sig.Name)
TooLong(boardname) == Len(boardname) > 16

ConstructComponentSignature(t, boardname, boardversion, uuid, manufuuid,
                            serial, component_position, signature_type) ==
    IF Len(boardname) = 0
    THEN [sig |-> NoSig, err |-> "Boardname is too short"]
    ELSE IF TooLong(boardname)
    THEN [sig |-> NoSig, err |-> "Boardname is too long"]
    ELSE [sig |->
            [Sig_version_major |-> 3, Sig_version_minor |-> 0,
             Sig_version_patch |-> 1,
             Signature_size |-> SizeWithCrc(CompSize),
             Signature_type |-> signature_type,
             Unix_time |-> t,
             Component_uuid |-> uuid,
             Name |-> Name16(boardname),
             Version_major |-> boardversion[1],
             Version_minor |-> boardversion[2],
             Version_assembly |-> boardversion[3],
             Serial_number |-> serial,
             Manufacturer_uuid |-> manufuuid,
             Position |-> component_position,
             Data_length |-> 0],
          err |-> ""]

\* binary.Write(buf, binary.BigEndian, sig): the fields in struct order
WriteBase(s) ==
    <<s.Sig_version_major, s.Sig_version_minor, s.Sig_version_patch>>
        \o PutUint16(s.Signature_size)
        \o <<s.Signature_type>>
        \o PutUint64(s.Unix_time)

IsEuiSig(s) == "Eui64" \in DOMAIN s

BinaryWrite(s) ==
    IF IsEuiSig(s)
    THEN WriteBase(s) \o PutUint64(s.Eui64)
    ELSE WriteBase(s)
             \o s.Component_uuid
             \o s.Name
             \o <<s.Version_major, s.Version_minor, s.Version_assembly>>
             \o s.Serial_number
             \o s.Manufacturer_uuid
             \o <<s.Position>>
             \o PutUint16(s.Data_length)

\* crc := crc16.Crc16(buf.Bytes()); binary.Write(buf, binary.BigEndian, crc)
WriteCrc(body) == body \o PutUint16(Crc16(body))

Serialize(s) == WriteCrc(BinaryWrite(s))

\* what ioutil.ReadFile returns: the file's bytes in a slice whose backing
\* array is longer than the file (bytes.MinRead spare bytes, or room for the
\* read at EOF with a floor of 512), zeroed beyond the file's length
MinRead == 512
GoBuilds == {"ReadFrom", "ReadAtEOF"}
ReadFileCap(build, n) ==
    IF build = "ReadFrom" THEN n + MinRead
    ELSE IF n + 1 < MinRead THEN MinRead ELSE n + 1
Buf(data, cap) == [data |-> data, cap |-> cap]

\* b[off:][:n]: the upper bound of a slice expression is the capacity
InCap(buf, off, n) == off + n <= buf.cap
\* the n bytes from offset off: the file's, then the zeroes of the spare room
Bytes(buf, off, n) ==
    LET len == Len(buf.data)
    IN IF off + n <= len THEN SubSeq(buf.data, off + 1, off + n)
       ELSE IF off >= len THEN Zeros(n)
       ELSE SubSeq(buf.data, off + 1, len) \o Zeros(off + n - len)

\* binary.Read(stream, binary.BigEndian, &ret): the fields in struct order
ReadBase(b) ==
    [Sig_version_major |-> b[1], Sig_version_minor |-> b[2],
     Sig_version_patch |-> b[3],
     Signature_size |-> Uint16(b, 4),
     Signature_type |-> b[6],
     Unix_time |-> Uint64(b, 7)]

ReadEui(b) ==
    [Sig_version_major |-> b[1], Sig_version_minor |-> b[2],
     Sig_version_patch |-> b[3],
     Signature_size |-> Uint16(b, 4),
     Signature_type |-> b[6],
     Unix_time |-> Uint64(b, 7),
     Eui64 |-> Uint64(b, 15)]

ReadComponent(b) ==
    [Sig_version_major |-> b[1], Sig_version_minor |-> b[2],
     Sig_version_patch |-> b[3],
     Signature_size |-> Uint16(b, 4),
     Signature_type |-> b[6],
     Unix_time |-> Uint64(b, 7),
     Component_uuid |-> [i \in 1..16 |-> b[14 + i]],
     Name |-> [i \in 1..16 |-> b[30 + i]],
     Version_major |-> b[47],
     Version_minor |-> b[48],
     Version_assembly |-> b[49],
     Serial_number |-> [i \in 1..16 |-> b[49 + i]],
     Manufacturer_uuid |-> [i \in 1..16 |-> b[65 + i]],
     Position |-> b[82],
     Data_length |-> Uint16(b, 83)]

Panic == [panic |-> TRUE, err |-> "", sig |-> NoSig]
Decoded(s, e) == [panic |-> FALSE, err |-> e, sig |-> s]

\* a plausible slip: the comparison left out
CheckCrcSkipped(ret, stored_crc, computed_crc) == Decoded(ret, "")
\* if stored_crc == computed_crc { return ret, nil } else { return ret, err }
CheckCrc(ret, stored_crc, computed_crc) ==
    Decoded(ret, IF stored_crc = computed_crc THEN "" ELSE "IntegrityError")

\* the three Deserialize methods on the bytes from offset off of the buffer
DeserializeBaseSignature(buf, off) ==
    IF ~InCap(buf, off, BaseSize) THEN Panic
    ELSE Decoded(ReadBase(Bytes(buf, off, BaseSize)), "")

DeserializeEui(buf, off) ==
    IF ~InCap(buf, off, EuiSize + 2) THEN Panic
    ELSE CheckCrc(ReadEui(Bytes(buf, off, EuiSize)),
                  Uint16(Bytes(buf, off + EuiSize, 2), 1),
                  Crc16(Bytes(buf, off, EuiSize)))

DeserializeComponent(buf, off) ==
    IF ~InCap(buf, off, CompSize + 2) THEN Panic
    ELSE CheckCrc(ReadComponent(Bytes(buf, off, CompSize)),
                  Uint16(Bytes(buf, off + CompSize, 2), 1),
                  Crc16(Bytes(buf, off, CompSize)))

\* readSigsFromFile after the loop
Finished(sigs) ==
    [panic |-> FALSE, sigs |-> sigs,
     err |-> IF Len(sigs) > 0 THEN "" ELSE "No signatures found"]

Panicked(sigs) == [panic |-> TRUE, sigs |-> sigs, err |-> ""]

\* what one pass of the loop ends in: the function returns res, or the next
\* pass starts with the cursor at rd and the records sigs
Return(res) == [done |-> TRUE, res |-> res, rd |-> 0, sigs |-> <<>>]
Continue(rd, sigs) ==
    [done |-> FALSE, res |-> Finished(<<>>), rd |-> rd, sigs |-> sigs]

\* the cases of the switch that deserialize a record: d is what they got
ReadRecord(next, sigs, d) ==
    IF d.panic THEN Return(Panicked(sigs))
    ELSE IF d.err # ""
    THEN Return([panic |-> FALSE, sigs |-> sigs, err |-> d.err])
    ELSE Continue(next, Append(sigs, d.sig))

\* a plausible slip: the cursor moved on by the length of the header
AdvanceByHeader(rd, size) == (rd + BaseSize) % Word
\* rd += bsig.Signature_size, on a uint16
Advance(rd, size) == (rd + size) % Word

\* the loop's body, h being what DeserializeBaseSignature got
ReadBody(buf, rd, sigs, h) ==
    IF h.panic THEN Return(Panicked(sigs))
    ELSE IF h.sig.Signature_size <= 0
            \/ h.sig.Signature_size > MAX_SIGNATURE_LENGTH
    THEN Return(Finished(sigs))
    ELSE IF h.sig.Signature_type = SIGNATURE_TYPE_EUI64
    THEN ReadRecord(Advance(rd, h.sig.Signature_size), sigs,
                    DeserializeEui(buf, rd))
    ELSE IF h.sig.Signature_type \in
              {SIGNATURE_TYPE_BOARD, SIGNATURE_TYPE_PLATFORM,
               SIGNATURE_TYPE_COMPONENT}
    THEN ReadRecord(Advance(rd, h.sig.Signature_size), sigs,
                    DeserializeComponent(buf, rd))
    ELSE Continue(Advance(rd, h.sig.Signature_size), sigs)

\* the loop's condition, rd < uint16(len(sigdata_in)), and its body
ReadPass(buf, rd, sigs) ==
    IF ~(rd < Len(buf.data) % Word) THEN Return(Finished(sigs))
    ELSE ReadBody(buf, rd, sigs, DeserializeBaseSignature(buf, rd))

\* for rd := uint16(0); rd < uint16(len(sigdata_in)); rd += bsig.Signature_size
RECURSIVE ReadLoop(_, _, _)
ReadOn(buf, pass) ==
    IF pass.done THEN pass.res ELSE ReadLoop(buf, pass.rd, pass.sigs)
ReadLoop(buf, rd, sigs) == ReadOn(buf, ReadPass(buf, rd, sigs))

readSigsFromFile(buf) == ReadLoop(buf, 0, <<>>)

\* the state of the codec before any call
NoCodecCall == [op |-> "none", arg |-> <<>>, recs |-> <<>>, sigs |-> <<>>,
                err |-> "", panic |-> FALSE]
\* no record of another make in the file
NoOdd == [kind |-> "none", at |-> 0, bytes |-> <<>>]
NoParts == [recs |-> <<>>, tail |-> <<>>, invoked |-> <<>>, odd |-> NoOdd]
NoCodec ==
    /\ blob = <<>>
    /\ parts = NoParts
    /\ codec = NoCodecCall

-----------------------------------------------------------------------------
(* The license generator: the pre-signing record, the signature, the files *)

LICENSE_TYPE == 4

\* t.Unix() of a timestamp of the model as an int64
Int64(t) == <<0, 0, 0, t>>

\* BeatstackParams as getBeatstackParams returns them from a configuration
BeatParams ==
    { [nodesInCluster |-> 4, partnershipsNr |-> 2, clustersNr |-> 8],
      [nodesInCluster |-> 255, partnershipsNr |-> 0, clustersNr |-> 1] }

\* a plausible slip: time.Now() in place of the timestamp handed in
ConstructPreSignNow(eui, t, p) ==
    [LicenseId |-> LICENSE_TYPE, Eui64 |-> eui, UnixTime |-> Int64(lic.now),
     BeatParams |-> p]
ConstructPreSign(eui, t, p) ==
    [LicenseId |-> LICENSE_TYPE, Eui64 |-> eui, UnixTime |-> Int64(t),
     BeatParams |-> p]

\* Serialize(ps PreSigning): binary.Write(buf, binary.BigEndian, ps), the
\* fields in struct order
SerializePreSigning(ps) ==
    <<ps.LicenseId>> \o PutUint64(ps.Eui64) \o PutUint64(ps.UnixTime)
        \o <<ps.BeatParams.nodesInCluster, ps.BeatParams.partnershipsNr,
             ps.BeatParams.clustersNr>>

\* the curve of the private key, and the bytes of one of its coordinates
Curves == {"P-224", "P-256"}
CoordinateWidth(curve) == IF curve = "P-224" THEN 28 ELSE 32

\* r and s as ecdsa.Sign returns them: numbers below the curve's order,
\* written here big-endian on the curve's width. One in 256 has a zero
\* first byte.
Coordinates(curve) ==
    LET w == CoordinateWidth(curve)
    IN { [i \in 1..w |-> 255 - i],
         [i \in 1..w |-> IF i = 1 THEN 0 ELSE 16 + i] }

\* the signatures the key gives: most have r and s of the full width, here
\* one of each kind
Signatures(curve) ==
    LET c == Coordinates(curve)
    IN {p \in c \X c : p[1][1] # 0 \/ p[2][1] # 0}

\* (*big.Int).Bytes(): the big-endian bytes of the absolute value, without
\* leading zero bytes
RECURSIVE BigIntBytes(_)
BigIntBytes(x) ==
    IF Len(x) > 0 /\ x[1] = 0 THEN BigIntBytes(Tail(x)) ELSE x

\* the identifiers license files are written for
LicIds == {EuiA1, ZeroEui}

\* a file of the license directory, or the output file
NoLicFile == [ex |-> FALSE, data |-> <<>>]
\* what the last pass of main's loop computed: in = the identifier, timestamp
\* and parameters given to ConstructPreSign, presign = serPreSign
NoSigned == [in |-> <<>>, presign |-> <<>>]

\* the clock (time.Now()) and --timestamp, in seconds; 0 = no --timestamp
LicTimes == {1, 2}
OptTimestamps == {0} \cup LicTimes

\* no invocation of the license generator has run; bp = the parameters of
\* the Beatstack configuration file, curve = the curve of the key file
NoLic == [st |-> "idle", list |-> <<>>, over |-> FALSE, time |-> 0,
          bp |-> CHOOSE p \in BeatParams : TRUE,
          now |-> 1, curve |-> "P-256",
          files |-> [e \in LicIds |-> NoLicFile], output |-> NoLicFile,
          last |-> NoSigned]

-----------------------------------------------------------------------------
(* The ledger operations applied to a ledger, one call after another *)

NoCall == [op |-> "none", eui |-> ZeroEui, time |-> 0, err |-> "",
           marked |-> FALSE, pre |-> Absent]

BoardName == "tsb0"

\* the lines a hand-written ledger is made of
InputLines ==
    { DataLine(<<Hex16(EuiA1)>>),
      DataLine(<<Hex16(EuiA2)>>),
      DataLine(<<Hex16(EuiA1), "">>),
      DataLine(<<Hex16(EuiA2), "TAKEN">>),
      PadLine(<<Hex16(EuiA2)>>),
      CommentLine("# pool"),
      DataLine(<<NotHex16>>) }

RECURSIVE SeqsUpTo(_, _)
SeqsUpTo(S, n) ==
    IF n = 0 THEN {<<>>}
    ELSE LET shorter == SeqsUpTo(S, n - 1)
         IN shorter \cup { Append(q, x) : q \in shorter, x \in S }

InputLedgers == { File(q) : q \in SeqsUpTo(InputLines, MaxLines) }

InitPool ==
    /\ ledger \in InputLedgers
    /\ temp = [t \in Times |-> Absent]
    /\ call = NoCall
    /\ used = {}
    /\ gen = <<>>
    /\ NoRuns
    /\ NoCodec
    /\ lic = NoLic

\* euigen --first --last: the ledger file is created with O_EXCL
Generate(first, last) ==
    /\ ~ledger.ex
    /\ ledger' = File(generate(first, last))
    /\ gen' = <<first, last>>
    /\ call' = [NoCall EXCEPT !.op = "generate", !.pre = ledger]
    /\ UNCHANGED <<temp, used>>
    /\ UNCHANGED sysVars
    /\ UNCHANGED <<codecVars, licVars>>

GetEui ==
    /\ LET r == getEui(ledger)
       IN call' = [NoCall EXCEPT !.op = "getEui", !.eui = r.eui,
                                 !.err = r.err, !.pre = ledger]
    /\ UNCHANGED <<ledger, temp, used, gen>>
    /\ UNCHANGED sysVars
    /\ UNCHANGED <<codecVars, licVars>>

MarkEui(eui, time) ==
    /\ LET r == markEui(Fs(ledger, temp), EuiSig(eui, time),
                        CompSig(BoardName, time))
       IN /\ ledger' = r.fs.ledger
          /\ temp' = r.fs.temp
          /\ used' = IF r.marked THEN used \cup {eui} ELSE used
          /\ call' = [op |-> "markEui", eui |-> eui, time |-> time,
                      err |-> r.err, marked |-> r.marked, pre |-> ledger]
    /\ UNCHANGED gen
    /\ UNCHANGED sysVars
    /\ UNCHANGED <<codecVars, licVars>>

\* getEui and markEui on a hand-written ledger
NextPool ==
    \/ GetEui
    \/ \E eui \in {EuiA1, EuiA2}, time \in Times : MarkEui(eui, time)

SpecPool == InitPool /\ [][NextPool]_vars

\* euigen, then getEui and markEui on the ledger it wrote
InitGen ==
    /\ ledger = Absent
    /\ temp = [t \in Times |-> Absent]
    /\ call = NoCall
    /\ used = {}
    /\ gen = <<>>
    /\ NoRuns
    /\ NoCodec
    /\ lic = NoLic

NextGen ==
    \/ \E first \in GenWindow, last \in GenWindow : Generate(first, last)
    \/ GetEui
    \/ \E eui \in GenWindow, time \in Times : MarkEui(eui, time)

SpecGen == InitGen /\ [][NextGen]_vars

-----------------------------------------------------------------------------
(* euigen: generate, one action per pass of its loop *)

\* 0xFFFFFFFFFFFFFFFF, and the window of identifiers that ends there
MaxEui == <<Limb - 1, Limb - 1, Limb - 1, Limb - 1>>
TopBase == <<Limb - 1, Limb - 1, Limb - 1, Limb - 1 - GenSpan>>
TopWindow == { PlusEui(TopBase, k) : k \in 0..GenSpan }

\* the ranges given as --first and --last: inside one of the two windows
GenRanges == (GenWindow \X GenWindow) \cup (TopWindow \X TopWindow)

\* the lines the file system has room for: WriteString fails after them
DiskLines == 2 * GenSpan + 3

\* generate up to its loop: the file is created, the range comment written;
\* call.eui is the loop variable current
OpenGenerate(first, last) ==
    /\ call.op # "generating"
    /\ ledger' = File(<<CommentLine("# EUI-64 range")>>)
    /\ gen' = <<first, last>>
    /\ call' = [NoCall EXCEPT !.op = "generating", !.eui = first]
    /\ UNCHANGED <<temp, used>>
    /\ UNCHANGED sysVars
    /\ UNCHANGED <<codecVars, licVars>>

\* for current := first; current <= last; current++ { ... }: the test, then
\* the body with its `return err`, or `return nil` after the loop
PassGenerate ==
    /\ call.op = "generating"
    /\ IF ~LeqEui(call.eui, gen[2])
       THEN /\ call' = [call EXCEPT !.op = "generate"]
            /\ UNCHANGED ledger
       ELSE IF Len(ledger.lines) >= DiskLines
       THEN /\ call' = [call EXCEPT !.op = "generate", !.err = "WriteFailed"]
            /\ UNCHANGED ledger
       ELSE /\ ledger' = File(Append(ledger.lines, GenLine(call.eui)))
            /\ call' = [call EXCEPT !.eui = IncEui(call.eui)]
    /\ UNCHANGED <<temp, used, gen>>
    /\ UNCHANGED sysVars
    /\ UNCHANGED <<codecVars, licVars>>

NextEuigen ==
    \/ \E r \in GenRanges : OpenGenerate(r[1], r[2])
    \/ PassGenerate

SpecEuigen == InitGen /\ [][NextEuigen]_vars

-----------------------------------------------------------------------------
(* usersiggen: main, the board flow, one action per system call *)

At(r, pc) == run[r].st = "run" /\ run[r].pc = pc
\* a process that is gone: nothing of it is left but the files
Ended == [Idle EXCEPT !.st = "ended"]
NoneRunning == \A r \in Runs : run[r].st # "run"

Goto(r, pc) == [run EXCEPT ![r].pc = pc]
\* os.Exit(1)
Exit(r) == [run EXCEPT ![r].st = "exit"]

\* 3.0.1 marks the ledger before it writes the signature file (an override
\* EUI is not marked), 3.0.0 writes the signature file first
AfterStat(r) ==
    IF version = "3.0.1"
    THEN IF run[r].over THEN "stat_sig" ELSE "mark_open"
    ELSE "open_sig"
AfterMark == IF version = "3.0.1" THEN "stat_sig" ELSE "write_out"
AfterWriteSig == IF version = "3.0.1" THEN "write_out" ELSE "mark_open"

\* the ledgers the invocations start from: two available identifiers, the
\* spec's example (one available, one taken), and an identifier listed twice
SysLedgers ==
    { File(<<DataLine(<<Hex16(EuiA1)>>), DataLine(<<Hex16(EuiA2)>>)>>),
      File(<<DataLine(<<Hex16(EuiA1)>>), DataLine(<<Hex16(EuiA2), "TAKEN">>)>>),
      File(<<DataLine(<<Hex16(EuiA1)>>), DataLine(<<Hex16(EuiA1)>>)>>) }

\* opts.Eui: empty, or the 16 hex digits of an override EUI
OptEui == {"", Hex16(EuiA1)}

\* usersiggen --type board [--eui optEui] [--timestamp time]
Start(r, time, optEui) ==
    /\ run[r].st = "idle"
    /\ \A q \in Runs : q < r => run[q].st # "idle"
    /\ Len(optEui) > 0 => version = "3.0.1"
    /\ run' = [q \in Runs |->
                 IF q = r
                 THEN [Idle EXCEPT !.st = "run",
                                   !.time = time,
                                   !.over = Len(optEui) > 0,
                                   !.eui = IF Len(optEui) > 0
                                           THEN parseEui(optEui).eui
                                           ELSE ZeroEui,
                                   !.pc = IF Len(optEui) > 0
                                          THEN "stat" ELSE "getEui"]
                 ELSE IF run[q].st \in {"idle", "run"} THEN run[q]
                 ELSE Ended]
    /\ UNCHANGED <<sig, bak, output, wrote, version, origin>>
    /\ UNCHANGED poolVars
    /\ UNCHANGED <<codecVars, licVars>>

\* an invocation started when no other is running
StartSerial(r, time, optEui) == NoneRunning /\ Start(r, time, optEui)

\* an invocation started beside another
StartRacer(r, time, optEui) == r \in Racers /\ Start(r, time, optEui)

\* eui, err = getEui(opts.Euifile)
CallGetEui(r) ==
    /\ At(r, "getEui")
    /\ LET res == getEui(ledger)
       IN run' = IF res.err # "" THEN Exit(r)
                 ELSE [run EXCEPT ![r].eui = res.eui, ![r].pc = "stat"]
    /\ UNCHANGED <<sig, bak, output, wrote, version, origin>>
    /\ UNCHANGED poolVars
    /\ UNCHANGED <<codecVars, licVars>>

\* a plausible slip: the check for an existing signature file left out
SigfileExistsNotChecked(r) == FALSE
\* _, err := os.Stat(sigfile); err == nil
SigfileExists(r) == sig[run[r].eui].ex

\* if overrideEui == false { if _, err := os.Stat(sigfile); err == nil
StatSigfile(r) ==
    /\ At(r, "stat")
    /\ run' = IF ~run[r].over /\ SigfileExists(r)
              THEN Exit(r) ELSE Goto(r, AfterStat(r))
    /\ UNCHANGED <<sig, bak, output, wrote, version, origin>>
    /\ UNCHANGED poolVars
    /\ UNCHANGED <<codecVars, licVars>>

\* markEui: in, err := os.Open(infile)
MarkOpen(r) ==
    /\ At(r, "mark_open")
    /\ run' = IF ~ledger.ex THEN Exit(r)
              ELSE [run EXCEPT ![r].in = ledger, ![r].pc = "mark_create"]
    /\ UNCHANGED <<sig, bak, output, wrote, version, origin>>
    /\ UNCHANGED poolVars
    /\ UNCHANGED <<codecVars, licVars>>

\* markEui: out, err := os.OpenFile(outfile, O_WRONLY|O_CREATE|O_EXCL, 0660)
MarkCreate(r) ==
    /\ At(r, "mark_create")
    /\ IF temp[run[r].time].ex
       THEN run' = Exit(r) /\ temp' = temp
       ELSE /\ temp' = FsCreateTemp(Fs(ledger, temp), run[r].time).temp
            /\ run' = Goto(r, "mark_write")
    /\ UNCHANGED <<sig, bak, output, wrote, version, origin>>
    /\ UNCHANGED <<ledger, call, used, gen>>
    /\ UNCHANGED <<codecVars, licVars>>

\* markEui: the scanner loop over the opened ledger, then writer.Flush()
MarkWrite(r) ==
    /\ At(r, "mark_write")
    /\ LET res == MarkLoop(run[r].in.lines, 1, FALSE, <<>>,
                           EuiSig(run[r].eui, run[r].time),
                           CompSig(BoardName, run[r].time))
       IN IF res.err # ""
          THEN run' = Exit(r) /\ temp' = temp
          ELSE /\ temp' = FsFlushTemp(Fs(ledger, temp), run[r].time,
                                      res.out).temp
               /\ run' = [run EXCEPT ![r].marked = res.marked,
                                     ![r].pc = "mark_remove"]
    /\ UNCHANGED <<sig, bak, output, wrote, version, origin>>
    /\ UNCHANGED <<ledger, call, used, gen>>
    /\ UNCHANGED <<codecVars, licVars>>

\* markEui: err = os.Remove(infile)
MarkRemove(r) ==
    /\ At(r, "mark_remove")
    /\ IF ~ledger.ex
       THEN run' = Exit(r) /\ ledger' = ledger
       ELSE /\ ledger' = FsRemoveLedger(Fs(ledger, temp)).ledger
            /\ run' = Goto(r, "mark_rename")
    /\ UNCHANGED <<sig, bak, output, wrote, version, origin>>
    /\ UNCHANGED <<temp, call, used, gen>>
    /\ UNCHANGED <<codecVars, licVars>>

\* markEui: err = os.Rename(outfile, infile), and the return to main
MarkRename(r) ==
    /\ At(r, "mark_rename")
    /\ IF ~temp[run[r].time].ex
       THEN run' = Exit(r) /\ UNCHANGED <<ledger, temp, used>>
       ELSE LET fs == FsRenameTemp(Fs(ledger, temp), run[r].time)
            IN /\ ledger' = fs.ledger
               /\ temp' = fs.temp
               /\ used' = IF run[r].marked THEN used \cup {run[r].eui}
                          ELSE used
               /\ run' = Goto(r, AfterMark)
    /\ UNCHANGED <<sig, bak, output, wrote, version, origin>>
    /\ UNCHANGED <<call, gen>>
    /\ UNCHANGED <<codecVars, licVars>>

\* if _, err := os.Stat(sigfile); err == nil {
StatSigfileAgain(r) ==
    /\ At(r, "stat_sig")
    /\ run' = Goto(r, IF sig[run[r].eui].ex THEN "stat_bak" ELSE "open_sig")
    /\ UNCHANGED <<sig, bak, output, wrote, version, origin>>
    /\ UNCHANGED poolVars
    /\ UNCHANGED <<codecVars, licVars>>

\* if _, err := os.Stat(bakfile); err == nil { ... os.Exit(1)
StatBakfile(r) ==
    /\ At(r, "stat_bak")
    /\ run' = IF bak[run[r].eui].ex THEN Exit(r) ELSE Goto(r, "rename_bak")
    /\ UNCHANGED <<sig, bak, output, wrote, version, origin>>
    /\ UNCHANGED poolVars
    /\ UNCHANGED <<codecVars, licVars>>

\* err := os.Rename(sigfile, bakfile)
RenameToBak(r) ==
    /\ At(r, "rename_bak")
    /\ LET e == run[r].eui
       IN IF ~sig[e].ex
          THEN run' = Exit(r) /\ UNCHANGED <<sig, bak>>
          ELSE /\ bak' = [bak EXCEPT ![e] = sig[e]]
               /\ sig' = [sig EXCEPT ![e] = NoBlob]
               /\ run' = Goto(r, "open_sig")
    /\ UNCHANGED <<output, wrote, version, origin>>
    /\ UNCHANGED poolVars
    /\ UNCHANGED <<codecVars, licVars>>

\* ioutil.WriteFile(sigfile, sigdata, 0440): the open with O_CREATE|O_TRUNC.
\* An existing signature file is read-only (0440): the open fails unless
\* the user may write any file.
OpenSigfile(r, privileged) ==
    /\ At(r, "open_sig")
    /\ LET e == run[r].eui
       IN IF sig[e].ex /\ ~privileged
          THEN run' = Exit(r) /\ sig' = sig
          ELSE /\ sig' = [sig EXCEPT ![e] =
                            [ex |-> TRUE,
                             by |-> IF sig[e].ex THEN sig[e].by ELSE r,
                             data |-> <<>>]]
               /\ run' = [run EXCEPT ![r].pc = "write_sig",
                            ![r].fd = IF sig[e].ex THEN sig[e].by ELSE r]
    /\ UNCHANGED <<bak, output, wrote, version, origin>>
    /\ UNCHANGED poolVars
    /\ UNCHANGED <<codecVars, licVars>>

\* ioutil.WriteFile(sigfile, sigdata, 0440): the write to the opened file,
\* wherever a rename has moved it since
WriteSigfile(r) ==
    /\ At(r, "write_sig")
    /\ LET e == run[r].eui
           data == SigData(e, run[r].time)
       IN /\ sig' = IF sig[e].ex /\ sig[e].by = run[r].fd
                    THEN [sig EXCEPT ![e].data = data] ELSE sig
          /\ bak' = IF bak[e].ex /\ bak[e].by = run[r].fd
                    THEN [bak EXCEPT ![e].data = data] ELSE bak
          /\ wrote' = wrote \cup {<<r, e, run[r].over>>}
    /\ run' = Goto(r, AfterWriteSig)
    /\ UNCHANGED <<output, version, origin>>
    /\ UNCHANGED poolVars
    /\ UNCHANGED <<codecVars, licVars>>

\* ioutil.WriteFile(opts.Output, sigdata, 0640), and the end of main
WriteOutput(r) ==
    /\ At(r, "write_out")
    /\ output' = [ex |-> TRUE, by |-> 0,
                  data |-> SigData(run[r].eui, run[r].time)]
    /\ run' = [run EXCEPT ![r].st = "done"]
    /\ UNCHANGED <<sig, bak, wrote, version, origin>>
    /\ UNCHANGED poolVars
    /\ UNCHANGED <<codecVars, licVars>>

\* the process is killed where it stands
Kill(r) ==
    /\ run[r].st = "run"
    /\ run' = [run EXCEPT ![r].st = "killed"]
    /\ UNCHANGED <<sig, bak, output, wrote, version, origin>>
    /\ UNCHANGED poolVars
    /\ UNCHANGED <<codecVars, licVars>>

Step(r) ==
    \/ CallGetEui(r)
    \/ StatSigfile(r)
    \/ MarkOpen(r)
    \/ MarkCreate(r)
    \/ MarkWrite(r)
    \/ MarkRemove(r)
    \/ MarkRename(r)
    \/ StatSigfileAgain(r)
    \/ StatBakfile(r)
    \/ RenameToBak(r)
    \/ \E privileged \in BOOLEAN : OpenSigfile(r, privileged)
    \/ WriteSigfile(r)
    \/ WriteOutput(r)

\* invocations of usersiggen (3.0.1 or 3.0.0) one at a time
Init ==
    /\ ledger \in SysLedgers
    /\ origin = ledger
    /\ version \in {"3.0.1", "3.0.0"}
    /\ temp = [t \in Times |-> Absent]
    /\ call = NoCall
    /\ used = {}
    /\ gen = <<>>
    /\ sig = [e \in SysIds |-> NoBlob]
    /\ bak = [e \in SysIds |-> NoBlob]
    /\ output = NoBlob
    /\ run = [r \in Runs |-> Idle]
    /\ wrote = {}
    /\ NoCodec
    /\ lic = NoLic

Next ==
    \/ \E r \in Runs, time \in Times, optEui \in OptEui :
           StartSerial(r, time, optEui)
    \/ \E r \in Runs : Step(r)
    \/ \E r \in Runs : Kill(r)

Spec == Init /\ [][Next]_vars

\* invocations of usersiggen 3.0.1 side by side
InitRace == Init /\ version = "3.0.1"

NextRace ==
    \/ \E r \in Runs, time \in Times, optEui \in OptEui :
           StartRacer(r, time, optEui)
    \/ \E r \in Runs : Step(r)

SpecRace == InitRace /\ [][NextRace]_vars

-----------------------------------------------------------------------------
(* The record codec applied to records and to signature files *)

\* t.Unix() as an int64 bit pattern: a time of 2017, 0, and -1
CodecTimes == {<<0, 0, 22714, 4660>>, ZeroEui, <<65535, 65535, 65535, 65535>>}
CodecEuis == {EuiA1, ZeroEui, <<65535, 65535, 65535, 65534>>}
Fill(n, v) == [i \in 1..n |-> v]
Uuid1 == [i \in 1..16 |-> 16 * i - 1]
Uuids == {Uuid1, Fill(16, 255)}
\* "tsb0", one letter, and a name that fills the 16 bytes
BoardNames == {<<116, 115, 98, 48>>, <<65>>, [i \in 1..16 |-> 64 + i]}
BoardVersions == {<<1, 2, 3>>, <<255, 0, 255>>}
ComponentTypes ==
    {SIGNATURE_TYPE_BOARD, SIGNATURE_TYPE_PLATFORM, SIGNATURE_TYPE_COMPONENT}

EuiRecords ==
    { ConstructEUISignature(t, e) : t \in CodecTimes, e \in CodecEuis }
ComponentRecords ==
    { ConstructComponentSignature(<<0, 0, 22714, 4660>>, n, v, u,
                                  Fill(16, 255), Zeros(16), v[1], tp).sig :
          n \in BoardNames, v \in BoardVersions, u \in Uuids,
          tp \in ComponentTypes }
Records == EuiRecords \cup ComponentRecords

\* the records written to signature files
FileRecords ==
    { ConstructEUISignature(<<0, 0, 22714, 4660>>, e) : e \in {EuiA1, ZeroEui} }
    \cup { ConstructComponentSignature(<<0, 0, 22714, 4660>>,
                                       <<116, 115, 98, 48>>, <<1, 2, 3>>,
                                       Uuid1, Fill(16, 255), Zeros(16), 1,
                                       tp).sig :
               tp \in ComponentTypes }
Encoded == [r \in FileRecords |-> Serialize(r)]

\* bytes after the last record of a file: fill bytes, zeroes, a few stray
\* bytes, the header of a record of an unknown type, the start of a record
Tails ==
    { Fill(16, 255), Fill(3, 255), Zeros(14), <<0, 0, 0, 1>>,
      <<3, 0, 1, 0, 24>>,
      <<3, 0, 1>> \o PutUint16(BaseSize) \o <<9>> \o Zeros(8),
      SubSeq(Encoded[ConstructEUISignature(<<0, 0, 22714, 4660>>, EuiA1)],
             1, BaseSize) }

\* main: gen.Serialize(sig), and the bytes written to the end of the file
WriteRecord(r) ==
    /\ Len(parts.recs) < MaxRecords
    /\ parts.tail = <<>>
    /\ blob' = blob \o Encoded[r]
    /\ parts' = [parts EXCEPT !.recs = Append(@, r)]
    /\ codec' = NoCodecCall
    /\ UNCHANGED <<poolVars, sysVars, licVars>>

\* the storage beyond the last record
Pad(tail) ==
    /\ parts.tail = <<>>
    /\ blob' = blob \o tail
    /\ parts' = [parts EXCEPT !.tail = tail]
    /\ codec' = NoCodecCall
    /\ UNCHANGED <<poolVars, sysVars, licVars>>

\* sigs, err := readSigsFromFile(opts.ReadSig)
ReadSigs(build) ==
    /\ \E res \in {readSigsFromFile(Buf(blob, ReadFileCap(build, Len(blob))))} :
         codec' = [op |-> "readSigs", arg |-> <<>>, recs |-> parts.recs,
                   sigs |-> res.sigs, err |-> res.err, panic |-> res.panic]
    /\ UNCHANGED <<blob, parts>>
    /\ UNCHANGED <<poolVars, sysVars, licVars>>

\* Serialize, then DeserializeEui or DeserializeComponent on its bytes
RoundTrip(r) ==
    /\ parts = NoParts /\ codec = NoCodecCall
    /\ \E bytes \in {Serialize(r)} :
         \E res \in {IF IsEuiSig(r)
                      THEN DeserializeEui(Buf(bytes, Len(bytes)), 0)
                      ELSE DeserializeComponent(Buf(bytes, Len(bytes)), 0)} :
            codec' = [op |-> "roundTrip", arg |-> <<>>, recs |-> <<r>>,
                      sigs |-> <<res.sig>>, err |-> res.err,
                      panic |-> res.panic]
    /\ UNCHANGED <<blob, parts>>
    /\ UNCHANGED <<poolVars, sysVars, licVars>>

\* the --board / --platform / --component names given on the command line:
\* none, names that fit, and names of 17 and 20 bytes
NameInputs ==
    BoardNames \cup {<<>>, [i \in 1..15 |-> 96 + i], [i \in 1..17 |-> 64 + i],
                     [i \in 1..20 |-> 47 + i]}

\* sig, err := gen.ConstructComponentSignature(t, name, version, ...)
Construct(boardname, signature_type) ==
    /\ parts = NoParts /\ codec = NoCodecCall
    /\ \E res \in {ConstructComponentSignature(<<0, 0, 22714, 4660>>,
                         boardname, <<1, 2, 3>>, Uuid1, Fill(16, 255),
                         Zeros(16), 1, signature_type)} :
         codec' = [op |-> "construct", arg |-> boardname, recs |-> <<>>,
                   sigs |-> <<res.sig>>, err |-> res.err, panic |-> FALSE]
    /\ UNCHANGED <<blob, parts>>
    /\ UNCHANGED <<poolVars, sysVars, licVars>>

\* 1 << k
RECURSIVE Bit(_)
Bit(k) == IF k = 0 THEN 1 ELSE 2 * Bit(k - 1)
\* the bytes with bit k of the byte at position pos inverted
FlipBit(bytes, pos, k) == [bytes EXCEPT ![pos] = Xor8(@, Bit(k))]

\* a record as Serialize wrote it, one bit of it changed in storage, given to
\* DeserializeEui or DeserializeComponent
Corrupt(r, pos, k) ==
    /\ parts = NoParts /\ codec = NoCodecCall
    /\ pos <= Len(Encoded[r])
    /\ \E bytes \in {FlipBit(Encoded[r], pos, k)} :
         \E res \in {IF IsEuiSig(r)
                      THEN DeserializeEui(Buf(bytes, Len(bytes)), 0)
                      ELSE DeserializeComponent(Buf(bytes, Len(bytes)), 0)} :
            codec' = [op |-> "corrupt", arg |-> <<pos, k>>, recs |-> <<r>>,
                      sigs |-> <<res.sig>>, err |-> res.err,
                      panic |-> res.panic]
    /\ UNCHANGED <<blob, parts>>
    /\ UNCHANGED <<poolVars, sysVars, licVars>>

InitCodec ==
    /\ NoCodec
    /\ lic = NoLic
    /\ ledger = Absent
    /\ temp = [t \in Times |-> Absent]
    /\ call = NoCall
    /\ used = {}
    /\ gen = <<>>
    /\ NoRuns

NextCodec ==
    \/ \E r \in FileRecords : WriteRecord(r)
    \/ \E tail \in Tails : Pad(tail)
    \/ \E build \in GoBuilds : ReadSigs(build)
    \/ \E r \in Records : RoundTrip(r)
    \/ \E n \in NameInputs, tp \in ComponentTypes : Construct(n, tp)
    \/ \E r \in FileRecords, pos \in 1..(CompSize + 2), k \in 0..7 :
           Corrupt(r, pos, k)

SpecCodec == InitCodec /\ [][NextCodec]_vars

-----------------------------------------------------------------------------
(* Signature files with a record that usersiggen did not write as it is *)

\* the records of these files
StreamRecords ==
    { ConstructEUISignature(<<0, 0, 22714, 4660>>, EuiA1) }
    \cup { ConstructComponentSignature(<<0, 0, 22714, 4660>>,
                                       <<116, 115, 98, 48>>, <<1, 2, 3>>,
                                       Uuid1, Fill(16, 255), Zeros(16), 1,
                                       tp).sig :
               tp \in {SIGNATURE_TYPE_BOARD, SIGNATURE_TYPE_COMPONENT} }

\* the bytes of a record with other bytes where Signature_size is stored
SetSize(bytes, n) ==
    [bytes EXCEPT ![4] = n \div Byte, ![5] = n % Byte]
\* a record damaged in storage: its last CRC byte, a bit of its timestamp,
\* or its Signature_size (to 0, to a value above 1024, to another value in
\* range), the CRC bytes being those of the record as it was written
Damaged(r) ==
    LET b == Encoded[r]
    IN { [kind |-> "crc", bytes |-> FlipBit(b, Len(b), 0)],
         [kind |-> "bit", bytes |-> FlipBit(b, 10, 3)],
         [kind |-> "size", bytes |-> SetSize(b, 0)],
         [kind |-> "size", bytes |-> SetSize(b, r.Signature_size + 1024)],
         [kind |-> "size", bytes |-> SetSize(b, r.Signature_size + 8)
                                        \o Zeros(8)] }
\* a record another program serialized with a Signature_size of its own
\* choice, in Signature_size bytes of the file when that is more than the
\* encoded length: the CRC is that of the bytes
Declared(r, n) ==
    LET b == Serialize([r EXCEPT !.Signature_size = n])
    IN [kind |-> "declared",
        bytes |-> b \o Zeros(IF n > Len(b) THEN n - Len(b) ELSE 0)]
\* a record of a type this version does not know: a header and n - 14 bytes
Unknown(type, n) ==
    [kind |-> "unknown",
     bytes |-> WriteBase([Sig_version_major |-> 3, Sig_version_minor |-> 1,
                          Sig_version_patch |-> 0, Signature_size |-> n,
                          Signature_type |-> type,
                          Unix_time |-> <<0, 0, 22714, 4660>>])
                   \o Fill(n - BaseSize, 170)]

OddRecords ==
    UNION { Damaged(r) : r \in StreamRecords }
    \cup UNION { {Declared(r, r.Signature_size + 6), Declared(r, 0),
                  Declared(r, MAX_SIGNATURE_LENGTH + 1)} :
                    r \in StreamRecords }
    \cup { Unknown(4, BaseSize), Unknown(9, 40),
           Unknown(255, MAX_SIGNATURE_LENGTH) }

\* the record o comes to stand at the end of the file
WriteOdd(o) ==
    /\ parts.odd = NoOdd
    /\ parts.tail = <<>>
    /\ blob' = blob \o o.bytes
    /\ parts' = [parts EXCEPT !.odd = [kind |-> o.kind,
                                       at |-> Len(parts.recs),
                                       bytes |-> o.bytes]]
    /\ codec' = NoCodecCall
    /\ UNCHANGED <<poolVars, sysVars, licVars>>

NextStream ==
    \/ \E r \in StreamRecords : WriteRecord(r)
    \/ \E o \in OddRecords : WriteOdd(o)
    \/ \E build \in GoBuilds : ReadSigs(build)

SpecStream == InitCodec /\ [][NextStream]_vars

-----------------------------------------------------------------------------
(* usersiggen: the output file over invocations of the three types *)

\* --position
Positions == {1, 2}
\* the EUI records and the board, platform and component records of the
\* invocations
OutEuiRecords ==
    { ConstructEUISignature(<<0, 0, 22714, 4660>>, e) : e \in SysIds }
OutComponentRecords ==
    { ConstructComponentSignature(<<0, 0, 22714, 4660>>,
                                  <<116, 115, 98, 48>>, <<1, 2, 3>>, Uuid1,
                                  Fill(16, 255), Zeros(16), pos, tp).sig :
          pos \in Positions, tp \in ComponentTypes }
OutEncoded == [r \in OutEuiRecords \cup OutComponentRecords |-> Serialize(r)]

\* a plausible slip: the board flow adding to the file as the others do
WriteFileAppending(old, data) == old \o data
\* ioutil.WriteFile(opts.Output, sigdata, 0640): O_WRONLY|O_CREATE|O_TRUNC
WriteFile(old, data) == data
\* os.OpenFile(opts.Output, os.O_APPEND|os.O_WRONLY, 0640); f.Write(csigdata)
AppendFile(old, data) == old \o data

\* usersiggen --type board, from its start to its successful end. The
\* output file exists once an invocation has written it.
InvokeBoard(eui, position) ==
    /\ Len(parts.invoked) < MaxRuns
    /\ parts.tail = <<>>
    /\ LET esig == ConstructEUISignature(<<0, 0, 22714, 4660>>, eui)
           csig == ConstructComponentSignature(
                       <<0, 0, 22714, 4660>>, <<116, 115, 98, 48>>,
                       <<1, 2, 3>>, Uuid1, Fill(16, 255), Zeros(16),
                       position, SIGNATURE_TYPE_BOARD).sig
       IN /\ blob' = WriteFile(blob, OutEncoded[esig] \o OutEncoded[csig])
          /\ parts' = [parts EXCEPT
                         !.recs = <<esig, csig>>,
                         !.invoked = Append(@, [type |-> "board",
                                                recs |-> <<esig, csig>>])]
    /\ codec' = NoCodecCall
    /\ UNCHANGED <<poolVars, sysVars, licVars>>

\* usersiggen --type platform or component, from its start to its
\* successful end: the output file must be there
InvokeComponent(type, position) ==
    /\ Len(parts.invoked) < MaxRuns
    /\ parts.tail = <<>>
    /\ parts.invoked # <<>>
    /\ LET tp == IF type = "platform" THEN SIGNATURE_TYPE_PLATFORM
                 ELSE SIGNATURE_TYPE_COMPONENT
           csig == ConstructComponentSignature(
                       <<0, 0, 22714, 4660>>, <<116, 115, 98, 48>>,
                       <<1, 2, 3>>, Uuid1, Fill(16, 255), Zeros(16),
                       position, tp).sig
       IN /\ blob' = AppendFile(blob, OutEncoded[csig])
          /\ parts' = [parts EXCEPT
                         !.recs = Append(@, csig),
                         !.invoked = Append(@, [type |-> type,
                                                recs |-> <<csig>>])]
    /\ codec' = NoCodecCall
    /\ UNCHANGED <<poolVars, sysVars, licVars>>

NextOutput ==
    \/ \E eui \in SysIds, position \in Positions : InvokeBoard(eui, position)
    \/ \E type \in {"platform", "component"}, position \in Positions :
           InvokeComponent(type, position)
    \/ \E build \in GoBuilds : ReadSigs(build)

SpecOutput == InitCodec /\ [][NextOutput]_vars

-----------------------------------------------------------------------------
(* The license generator: main, one action per pass of its loop *)

\* --eui: 16 hex digits, or a text that is not 16 characters long
LicOptEui == {Hex16(EuiA1), "AAAA"}
\* --euifile as getEuiList returns it, strings.Split(str, "\n"): a file
\* without and with a newline at its end, and one that starts with a comment
LicEuiLists ==
    { <<Hex16(EuiA1)>>, <<Hex16(EuiA1), "">>, <<"# eui", Hex16(EuiA1)>> }

\* the process has ended (st = "done" or "exit"): nothing of it is left but
\* the files and what its last pass computed
LicEnded(l, st) ==
    [l EXCEPT !.st = st, !.list = NoLic.list, !.over = NoLic.over,
              !.time = NoLic.time]

\* main up to its loop: the options, the timestamp, the list of identifiers
LicStart(optEui, euiList, optTimestamp) ==
    /\ lic.st # "run"
    /\ lic' =
         IF Len(optEui) > 0 /\ Len(optEui) # 16
         THEN LicEnded(lic, "exit")
         ELSE [lic EXCEPT
                 !.st = "run",
                 !.over = Len(optEui) > 0,
                 !.list = IF Len(optEui) > 0 THEN <<optEui>> ELSE euiList,
                 !.time = IF optTimestamp > 0 THEN optTimestamp ELSE lic.now]
    /\ UNCHANGED <<poolVars, sysVars, codecVars>>

\* the files after the two ioutil.WriteFile calls, or the exit before them
LicWrite(eui, signed, r, s, privileged) ==
    IF (~lic.over /\ lic.files[eui].ex)
           \/ (lic.files[eui].ex /\ ~privileged)
    THEN LicEnded([lic EXCEPT !.last = signed], "exit")
    ELSE LET licdata == signed.presign \o BigIntBytes(r) \o BigIntBytes(s)
             written == [lic EXCEPT
                           !.files[eui] = [ex |-> TRUE, data |-> licdata],
                           !.output = [ex |-> TRUE, data |-> licdata],
                           !.last = signed,
                           !.list = Tail(lic.list)]
         IN IF Len(lic.list) = 1 THEN LicEnded(written, "done") ELSE written

\* one pass of the loop: for _, euiString := range euiList { ... }. A license
\* file that exists is read-only (0440): WriteFile fails on it unless the
\* user may write any file.
LicSign(r, s, privileged) ==
    /\ lic.st = "run"
    /\ <<r, s>> \in Signatures(lic.curve)
    /\ \E eui \in {parseEui(Head(lic.list)).eui} :
         \E serPreSign \in
               {SerializePreSigning(ConstructPreSign(eui, lic.time, lic.bp))} :
            lic' = LicWrite(eui,
                            [in |-> <<eui, lic.time, lic.bp>>,
                             presign |-> serPreSign],
                            r, s, privileged)
    /\ UNCHANGED <<poolVars, sysVars, codecVars>>

\* a second passes on the clock
LicTick ==
    /\ lic.now + 1 \in LicTimes
    /\ lic' = [lic EXCEPT !.now = @ + 1]
    /\ UNCHANGED <<poolVars, sysVars, codecVars>>

InitLic ==
    /\ lic \in {[NoLic EXCEPT !.curve = c, !.bp = p] :
                   c \in Curves, p \in BeatParams}
    /\ NoCodec
    /\ ledger = Absent
    /\ temp = [t \in Times |-> Absent]
    /\ call = NoCall
    /\ used = {}
    /\ gen = <<>>
    /\ NoRuns

AllCoordinates == UNION {Coordinates(c) : c \in Curves}

NextLic ==
    \/ \E optEui \in LicOptEui \cup {""}, euiList \in LicEuiLists,
          optTimestamp \in OptTimestamps :
           LicStart(optEui, euiList, optTimestamp)
    \/ \E r \in AllCoordinates, s \in AllCoordinates, privileged \in BOOLEAN :
           LicSign(r, s, privileged)
    \/ LicTick

SpecLic == InitLic /\ [][NextLic]_vars

-----------------------------------------------------------------------------
(* Claims about the ledger operations *)

MinOf(S) == CHOOSE i \in S : \A j \in S : i <= j

\* a data line with no comma, or with nothing after its single comma
IsAvailableLine(line) ==
    /\ ~line.hash
    /\ \/ Len(line.f) = 1
       \/ Len(line.f) = 2 /\ line.f[2] = ""

AvailableIn(lines) == { i \in 1..Len(lines) : IsAvailableLine(lines[i]) }

\* the available lines whose text is the 16 hex digits of eui
MatchesIn(lines, eui) ==
    { i \in AvailableIn(lines) : lines[i].f[1] = HexTable[eui] }

\* the data lines, annotated or not, that carry eui
LinesOf(lines, eui) ==
    { i \in 1..Len(lines) : ~lines[i].hash /\ lines[i].f[1] = HexTable[eui] }

SameUpToBlanks(a, b) == a.hash = b.hash /\ a.f = b.f

\* C2: the ledger rewritten by markEui differs from the original only in the
\* first unannotated line whose value equals id, which gains the annotation;
\* every other line is copied (here: up to surrounding white space) in the
\* same position, and with no such line the content is unchanged.
C2_MarkChangesOnlyFirstMatch ==
    (call.op = "markEui" /\ call.err = "") =>
        LET pre == call.pre.lines
            post == ledger.lines
            m == MatchesIn(pre, call.eui)
        IN /\ ledger.ex
           /\ Len(post) = Len(pre)
           /\ \A i \in 1..Len(pre) :
                 IF m # {} /\ i = MinOf(m)
                 THEN /\ post[i].f[1] = pre[i].f[1]
                      /\ Len(post[i].f) > 2
                 ELSE SameUpToBlanks(post[i], pre[i])

\* C3 as stated: once markEui has annotated id, no later getEui returns id;
\* with no available line left getEui fails with PoolExhausted.
C3_NeverReturnsUsed ==
    (call.op = "getEui" /\ call.pre.ex) =>
        /\ call.err = "" => call.eui \notin used
        /\ AvailableIn(call.pre.lines) = {} => call.err = "PoolExhausted"

\* C3 amended: once markEui has annotated id, a later getEui returns id only
\* from another line of the ledger that lists the same value again (the
\* annotated line stays, so the ledger then holds id on two data lines);
\* with no available line left getEui fails with PoolExhausted.
C3_ReturnsUsedOnlyFromDuplicate ==
    (call.op = "getEui" /\ call.pre.ex) =>
        /\ (call.err = "" /\ call.eui \in used) =>
               /\ Cardinality(LinesOf(ledger.lines, call.eui)) >= 2
               /\ \E i \in LinesOf(ledger.lines, call.eui) :
                      ~IsAvailableLine(ledger.lines[i])
        /\ AvailableIn(call.pre.lines) = {} => call.err = "PoolExhausted"

\* a getEui after a markEui that annotated EuiA1 moves on to EuiA2
C3_Witness ==
    /\ call.op = "getEui"
    /\ call.err = ""
    /\ used = {EuiA1}
    /\ call.eui = EuiA2

\* C8: getEui returns the value of the first non-comment line that has no
\* comma or nothing after its single comma, skipping the comment lines and
\* annotated lines before it (a parse error if that line's text is not 16
\* hex digits); with no such line it fails with PoolExhausted.
C8_GetEuiFirstAvailable ==
    (call.op = "getEui" /\ call.pre.ex) =>
        LET lines == call.pre.lines
            avail == AvailableIn(lines)
        IN IF avail = {} THEN call.err = "PoolExhausted"
           ELSE LET text == lines[MinOf(avail)].f[1]
                IN IF text \in HexTexts
                   THEN call.err = "" /\ HexTable[call.eui] = text
                   ELSE call.err = "InvalidEui"

\* getEui skipped a comment line and an annotated line and returned the
\* value of the third line
C8_Witness ==
    /\ call.op = "getEui"
    /\ call.err = ""
    /\ Len(call.pre.lines) = 3
    /\ call.pre.lines[1].hash
    /\ call.pre.lines[2].f = <<Hex16(EuiA2), "TAKEN">>
    /\ call.eui = EuiA1

\* C9: markEui returns a failure when the ledger contains no unannotated
\* line whose value equals the identifier to mark.
C9_MarkFailsWhenNotFound ==
    (call.op = "markEui" /\ call.pre.ex
        /\ MatchesIn(call.pre.lines, call.eui) = {}) => call.err # ""

\* the identifiers of the range first..last, in the window the ranges are
\* drawn from
RangeOf(first, last) ==
    { e \in GenWindow : LeqEui(first, e) /\ LeqEui(e, last) }

IsReservedId(e) == e[4] = 0 \/ e[4] = 65535

\* C10: in a ledger written by generate every entry whose low 16 bits are
\* 0x0000 or 0xFFFF is annotated RESERVED and every other entry is available,
\* and getEui on that ledger, after any sequence of getEui / markEui calls,
\* never returns an identifier whose low 16 bits are 0x0000 or 0xFFFF.
C10_ReservedNeverReturned ==
    /\ call.op = "generate" =>
          /\ \A e \in RangeOf(gen[1], gen[2]) :
                \E i \in 2..Len(ledger.lines) :
                    /\ ledger.lines[i].f[1] = HexTable[e]
                    /\ IF IsReservedId(e)
                       THEN ledger.lines[i].f = <<HexTable[e], "RESERVED">>
                       ELSE IsAvailableLine(ledger.lines[i])
          /\ Len(ledger.lines) = 1 + Cardinality(RangeOf(gen[1], gen[2]))
    /\ (call.op = "getEui" /\ call.err = "") => ~IsReservedId(call.eui)

\* on the ledger of the range 0x1FFFD..0x20001, after markEui has taken
\* 0x1FFFD and 0x1FFFE, getEui passes the two reserved entries and returns
\* 0x20001
C10_Witness ==
    /\ gen = <<GenBase, PlusEui(GenBase, 4)>>
    /\ used = {GenBase, PlusEui(GenBase, 1)}
    /\ call.op = "getEui"
    /\ call.err = ""
    /\ call.eui = PlusEui(GenBase, 4)

-----------------------------------------------------------------------------
(* Claims about the board flow *)

\* the steps of markEui between its open of the ledger and the completion
\* of os.Rename(outfile, infile)
InMarkEui == {"mark_create", "mark_write", "mark_remove", "mark_rename"}

\* C1: at every point of markEui before the rename of the temporary file
\* onto the ledger path has completed, whether the run is alive, killed
\* there or has returned an error, the file at the ledger path exists and is
\* identical to the ledger as it was when markEui opened it.
C1_LedgerIntactBeforeRename ==
    \A r \in Runs :
        (run[r].st \in {"run", "killed", "exit"} /\ run[r].pc \in InMarkEui)
            => (ledger.ex /\ ledger = run[r].in)

\* the runs that have written id's records into a signature file after
\* taking id from the ledger
LedgerWriters(e) == { r \in Runs : <<r, e, FALSE>> \in wrote }

\* C5: with the invocations run one at a time, each possibly killed at any
\* step, no identifier taken from the ledger is written into signature
\* files by two different runs.
C5_NoIdWrittenByTwoRuns ==
    \A e \in SysIds : Cardinality(LedgerWriters(e)) <= 1

\* the first run has taken its identifier from the ledger and its markEui
\* has not yet put the rewritten ledger in place
InWindow(p) ==
    /\ run[p].st = "run"
    /\ ~run[p].over
    /\ run[p].pc \in {"stat", "mark_open"} \cup InMarkEui

\* C4: when the second invocation runs getEui after the first's getEui and
\* before the first's markEui has replaced the ledger, it obtains the
\* identifier the first obtained.
C4_SecondGetsSameEui ==
    [][ \A p \in Racers, q \in Racers :
          (p # q /\ InWindow(p) /\ At(q, "getEui") /\ run'[q] # run[q])
              => (run'[q].st = "run" /\ run'[q].eui = run[p].eui) ]_vars

-----------------------------------------------------------------------------
(* Claims about the record codec *)

\* the bytes start with a whole base header whose declared size is in range
ValidHeader(bytes) ==
    /\ Len(bytes) >= BaseSize
    /\ Uint16(bytes, 4) > 0
    /\ Uint16(bytes, 4) <= MAX_SIGNATURE_LENGTH

\* C6: for valid records A, B and trailing bytes that do not form a valid
\* header, readSigsFromFile over encode(A)+encode(B)+trailing returns
\* exactly [A, B] without error; over the trailing bytes alone it fails.
C6_StreamTolerance ==
    (codec.op = "readSigs" /\ ~ValidHeader(parts.tail)) =>
        /\ Len(parts.recs) = 2 =>
               (~codec.panic /\ codec.err = "" /\ codec.sigs = parts.recs)
        /\ Len(parts.recs) = 0 => (codec.panic \/ codec.err # "")

\* C7: for every valid EUI record and every valid board, platform or
\* component record, deserializing the bytes that Serialize produced returns
\* a record equal to the original in every field, with no error.
C7_RoundTrip ==
    codec.op = "roundTrip" =>
        (~codec.panic /\ codec.err = "" /\ codec.sigs = codec.recs)

\* a platform record whose name fills all 16 bytes has made the round trip
C7_Witness ==
    /\ codec.op = "roundTrip"
    /\ codec.err = ""
    /\ ~IsEuiSig(codec.recs[1])
    /\ codec.recs[1].Signature_type = SIGNATURE_TYPE_PLATFORM
    /\ codec.recs[1].Name[16] # 0
    /\ codec.sigs[1].Name = codec.recs[1].Name


\* main's two construction errors under the names the specification gives
FieldRequired == "Boardname is too short"
FieldTooLong == "Boardname is too long"

\* C11: ConstructComponentSignature fails with FieldRequired for an empty
\* name and with FieldTooLong for a name of more than 16 bytes, returning no
\* record (so nothing truncated); for a name of 1 to 16 bytes it succeeds and
\* the record's Name is 16 bytes: the name's bytes first, zeroes after them.
C11_FieldBounds ==
    codec.op = "construct" =>
        LET n == codec.arg
            s == codec.sigs[1]
        IN /\ Len(n) = 0 => (codec.err = FieldRequired /\ s = NoSig)
           /\ Len(n) > 16 => (codec.err = FieldTooLong /\ s = NoSig)
           /\ Len(n) \in 1..16 =>
                  /\ codec.err = ""
                  /\ Len(s.Name) = 16
                  /\ \A i \in 1..16 :
                         s.Name[i] = (IF i <= Len(n) THEN n[i] ELSE 0)

\* a name of 15 bytes was stored with one byte of padding
C11_Witness ==
    /\ codec.op = "construct"
    /\ Len(codec.arg) = 15
    /\ codec.err = ""
    /\ codec.sigs[1].Name[15] = codec.arg[15]
    /\ codec.sigs[1].Name[16] = 0

\* the files an invocation of the board flow can touch
Files == <<ledger, temp, sig, bak, output>>

\* C12: a board run without an override whose identifier, as returned by
\* getEui, already has a signature file EUI-64_<id>.bin fails at the check
\* (os.Exit(1)), and none of its steps up to there (the start, getEui, the
\* check) changes the ledger, a signature file, a backup or the output file.
C12_DuplicateIdentifier ==
    [][\A r \in Runs :
          /\ (/\ At(r, "stat") /\ ~run[r].over /\ sig[run[r].eui].ex
              /\ run'[r] # run[r] /\ run'[r].st # "killed")
                 => (run'[r].st = "exit" /\ Files' = Files)
          /\ (/\ run[r].st \in {"idle", "run"}
              /\ run[r].pc \in {"start", "getEui", "stat"} /\ ~run[r].over
              /\ run'[r] # run[r])
                 => Files' = Files]_vars

\* a run has exited at the check with the signature file of its identifier
\* and an output file of an earlier run in place
C12_Witness ==
    \E r \in Runs :
        /\ run[r].st = "exit" /\ run[r].pc = "stat" /\ ~run[r].over
        /\ run[r].eui \in SysIds
        /\ sig[run[r].eui].ex
        /\ output.ex
        /\ ledger.ex

\* markEui is running in invocation r: it has opened the ledger and has not
\* returned from its os.Rename
MarkEuiRunning(r) == run[r].st = "run" /\ run[r].pc \in InMarkEui

\* the complete content markEui of invocation r writes: every line of the
\* ledger it opened, passed through the loop
NewLedger(r) ==
    File(MarkLoop(run[r].in.lines, 1, FALSE, <<>>,
                  EuiSig(run[r].eui, run[r].time),
                  CompSig(BoardName, run[r].time)).out)

\* the ledgers before and after the markEui calls of the invocations
CompleteLedgers ==
    {origin} \cup {run[r].in : r \in Runs}
             \cup {NewLedger(r) : r \in {q \in Runs : run[q].in.ex}}

C14_CrcSensitivity ==
    (/\ codec.op = "corrupt"
     /\ codec.arg[1] <= Len(Encoded[codec.recs[1]]) - 2)
        => (~codec.panic /\ codec.err = "IntegrityError")

\* the lowest bit of the last payload byte of a component record was
\* inverted, and the call returned the error
C14_Witness ==
    /\ codec.op = "corrupt"
    /\ ~IsEuiSig(codec.recs[1])
    /\ codec.arg = <<CompSize, 0>>
    /\ codec.err = "IntegrityError"

-----------------------------------------------------------------------------
(* Claims about the license generator *)

LicArtifacts ==
    {lic.files[e].data : e \in {i \in LicIds : lic.files[i].ex}}
        \cup (IF lic.output.ex THEN {lic.output.data} ELSE {})

\* C16: every license artifact made with the key's curve is 20 + 2w bytes
\* long, w being the curve's coordinate width: the 20 pre-signing bytes, then
\* r on w bytes, then s on w bytes, big-endian with their leading zero bytes.
C16_FixedWidthLayout ==
    \A data \in LicArtifacts :
        LET w == CoordinateWidth(lic.curve)
        IN /\ Len(data) = 20 + 2 * w
           /\ \E p \in Signatures(lic.curve) :
                  /\ SubSeq(data, 21, 20 + w) = p[1]
                  /\ SubSeq(data, 21 + w, 20 + 2 * w) = p[2]

-----------------------------------------------------------------------------
(* Claims about the output file *)

\* the records of the invocations of the given types, in invocation order
RECURSIVE RecordsOf(_, _)
RecordsOf(invoked, types) ==
    IF invoked = <<>> THEN <<>>
    ELSE (IF Head(invoked).type \in types THEN Head(invoked).recs ELSE <<>>)
             \o RecordsOf(Tail(invoked), types)

\* the invocations from the last board invocation on
RECURSIVE FromLastBoard(_)
FromLastBoard(invoked) ==
    IF invoked = <<>> THEN <<>>
    ELSE IF \E i \in 2..Len(invoked) : invoked[i].type = "board"
    THEN FromLastBoard(Tail(invoked))
    ELSE invoked

\* the output file, read by readSigsFromFile after the invocations
OutputRead == codec.op = "readSigs" /\ parts.invoked # <<>>

\* C17 as stated: after any sequence of successful board, platform and
\* component invocations on one output file that begins with a board
\* invocation, the file holds exactly one EUI record, first, then a board
\* record, then the records of the platform and component invocations in
\* invocation order.
C17_OneEuiThenAllInOrder ==
    OutputRead =>
        LET sigs == codec.sigs
        IN /\ codec.err = "" /\ ~codec.panic
           /\ Len(sigs) >= 2
           /\ IsEuiSig(sigs[1])
           /\ \A i \in 2..Len(sigs) : ~IsEuiSig(sigs[i])
           /\ sigs[2].Signature_type = SIGNATURE_TYPE_BOARD
           /\ SubSeq(sigs, 3, Len(sigs))
                 = RecordsOf(parts.invoked, {"platform", "component"})

\* C17, amended: the file holds the EUI record and the board record of the
\* last board invocation, then the records of the platform and component
\* invocations that came after it, in invocation order; so exactly one EUI
\* record, at offset 0.
C17_LastBoardThenLaterInOrder ==
    OutputRead =>
        LET sigs == codec.sigs
        IN /\ codec.err = "" /\ ~codec.panic
           /\ sigs = RecordsOf(FromLastBoard(parts.invoked),
                               {"board", "platform", "component"})
           /\ IsEuiSig(sigs[1])
           /\ \A i \in 2..Len(sigs) : ~IsEuiSig(sigs[i])
           /\ sigs[2].Signature_type = SIGNATURE_TYPE_BOARD

\* a board, a platform and a second board invocation, and the file read:
\* the second board's two records
C17_Witness ==
    /\ OutputRead
    /\ Len(parts.invoked) = 3
    /\ parts.invoked[1].type = "board"
    /\ parts.invoked[2].type = "platform"
    /\ parts.invoked[3].type = "board"
    /\ codec.sigs = parts.invoked[3].recs


-----------------------------------------------------------------------------
(* Claims about signature files with a damaged or a foreign record *)

\* readSigsFromFile was given a file with a record of OddRecords in it
OddRead == codec.op = "readSigs" /\ parts.odd # NoOdd
OddHeader == ReadBase(parts.odd.bytes)
Recognized(type) == type \in {SIGNATURE_TYPE_EUI64} \cup ComponentTypes
\* the encoded length of the record's type without the CRC
OddLayout ==
    IF OddHeader.Signature_type = SIGNATURE_TYPE_EUI64 THEN EuiSize
    ELSE CompSize
\* the stored CRC is not the CRC of the header and payload
OddCrcDiffers ==
    Uint16(parts.odd.bytes, OddLayout + 1)
        # Crc16(SubSeq(parts.odd.bytes, 1, OddLayout))
SizeInRange(size) == size > 0 /\ size <= MAX_SIGNATURE_LENGTH
\* the records written before the odd one, and all the records written
RecordsBefore == SubSeq(parts.recs, 1, parts.odd.at)

\* C18: a record of a recognized type whose stored CRC differs from the
\* computed one makes readSigsFromFile return an error, and the record is not
\* among the decoded values, however many records stand before it
C18_CrcMismatchIsAnError ==
    (OddRead /\ Recognized(OddHeader.Signature_type) /\ OddCrcDiffers)
        => /\ ~codec.panic
           /\ codec.err # ""
           /\ codec.sigs = RecordsBefore

\* C18 as the code has it: the error is returned when the declared size is
\* in 1..1024; when it is not, reading stops at the record without an error
\* if a record was decoded before it; the record is returned in neither case
C18_CheckedCrcMismatchIsAnError ==
    (OddRead /\ Recognized(OddHeader.Signature_type) /\ OddCrcDiffers)
        => /\ ~codec.panic
           /\ codec.sigs = RecordsBefore
           /\ IF SizeInRange(OddHeader.Signature_size)
              THEN codec.err = "IntegrityError"
              ELSE codec.err = "" <=> parts.odd.at > 0

C18_Witness ==
    /\ OddRead
    /\ parts.odd.kind = "crc"
    /\ parts.odd.at > 0
    /\ Len(parts.recs) > parts.odd.at
    /\ codec.err = "IntegrityError"
    /\ codec.sigs = RecordsBefore

\* the encoded length of a decoded record with its CRC
EncodedLength(s) == (IF IsEuiSig(s) THEN EuiSize ELSE CompSize) + 2

\* C19: a record whose declared Signature_size is not the encoded length of
\* its type plus 2 (24 for an EUI record, 86 for a component record), or is 0
\* or above 1024, is never among the values readSigsFromFile returns
C19_MismatchedSizeIsUnreadable ==
    codec.op = "readSigs"
        => \A i \in 1..Len(codec.sigs) :
              /\ codec.sigs[i].Signature_size = EncodedLength(codec.sigs[i])
              /\ SizeInRange(codec.sigs[i].Signature_size)

\* C20: a record of an unrecognized type with a declared size in 1..1024 is
\* skipped: no error is raised for it, and the recognized records of the
\* file, those before it and those after it, are returned in their order
C20_UnknownTypeSkipped ==
    (OddRead /\ ~Recognized(OddHeader.Signature_type)
             /\ SizeInRange(OddHeader.Signature_size))
        => /\ ~codec.panic
           /\ codec.sigs = parts.recs
           /\ codec.err = (IF parts.recs = <<>> THEN "No signatures found"
                           ELSE "")

C20_Witness ==
    /\ OddRead
    /\ ~Recognized(OddHeader.Signature_type)
    /\ OddHeader.Signature_size > BaseSize
    /\ parts.odd.at > 0
    /\ Len(parts.recs) > parts.odd.at
    /\ codec.sigs = parts.recs
    /\ codec.err = ""

-----------------------------------------------------------------------------
(* readSigsFromFile pass by pass, on files of more than MinRead bytes *)

\* n copies of the bytes, one after the other
Repeat(bytes, n) ==
    [i \in 1..(n * Len(bytes)) |-> bytes[((i - 1) % Len(bytes)) + 1]]

\* the files: an EUI record, six board records and three fill bytes; records
\* of an unknown type and 1024 (or 512) bytes each up to one byte less than
\* 2^16 bytes, up to 2^16 bytes, and up to 2^16 bytes with an EUI record
\* after them
LongEui == Encoded[ConstructEUISignature(<<0, 0, 22714, 4660>>, EuiA1)]
LongBoard ==
    Encoded[ConstructComponentSignature(
                <<0, 0, 22714, 4660>>, <<116, 115, 98, 48>>, <<1, 2, 3>>,
                Uuid1, Fill(16, 255), Zeros(16), 1,
                SIGNATURE_TYPE_BOARD).sig]
LongStray == LongEui \o Repeat(LongBoard, 6) \o Fill(3, 255)
LongBelow ==
    SubSeq(Repeat(Unknown(9, MAX_SIGNATURE_LENGTH).bytes, 64), 1, Word - 1)
LongBelow512 == SubSeq(Repeat(Unknown(9, 512).bytes, 128), 1, Word - 1)
LongFull == Repeat(Unknown(9, MAX_SIGNATURE_LENGTH).bytes, 64)
LongPast == LongFull \o LongEui
LongNames == {"stray", "below", "below512", "full", "past"}
LongFile(k) ==
    CASE k = "stray" -> LongStray
      [] k = "below" -> LongBelow
      [] k = "below512" -> LongBelow512
      [] k = "full" -> LongFull
      [] k = "past" -> LongPast

\* sigdata_in, err = ioutil.ReadFile(filename); rd := uint16(0)
OpenLong(k, build) ==
    /\ NoCodec
    /\ codec' = [op |-> "reading", arg |-> <<k, build, 0>>, recs |-> <<>>,
                 sigs |-> <<>>, err |-> "", panic |-> FALSE]
    /\ UNCHANGED <<blob, parts>>
    /\ UNCHANGED <<poolVars, sysVars, licVars>>

\* the buffer ioutil.ReadFile returns for the file k under a build
LongBuf(k, build) == Buf(LongFile(k), ReadFileCap(build, Len(LongFile(k))))

\* the call after a pass: returned from, or in its next pass
AfterPass(c, pass) ==
    IF pass.done
    THEN [op |-> "readSigs", arg |-> <<c.arg[1], c.arg[2]>>, recs |-> <<>>,
          sigs |-> pass.res.sigs, err |-> pass.res.err,
          panic |-> pass.res.panic]
    ELSE [c EXCEPT !.arg[3] = pass.rd, !.sigs = pass.sigs]

\* one pass of the loop: its condition, its body and its post statement, or
\* the return from the function
PassLong ==
    /\ codec.op = "reading"
    /\ codec' = AfterPass(codec, ReadPass(LongBuf(codec.arg[1], codec.arg[2]),
                                          codec.arg[3], codec.sigs))
    /\ UNCHANGED <<blob, parts>>
    /\ UNCHANGED <<poolVars, sysVars, licVars>>

\* the caller has the result; the next call may start
CloseLong ==
    /\ codec.op = "readSigs"
    /\ codec' = NoCodecCall
    /\ UNCHANGED <<blob, parts>>
    /\ UNCHANGED <<poolVars, sysVars, licVars>>

NextLong ==
    \/ \E k \in LongNames, build \in GoBuilds : OpenLong(k, build)
    \/ PassLong
    \/ CloseLong

SpecLong == InitCodec /\ [][NextLong]_vars

-----------------------------------------------------------------------------
(* Claims about the declared size, the buffer's end and the 16-bit cursor *)

\* the cursor after the first n of the records, each adding its
\* Signature_size
RECURSIVE CursorAfter(_, _)
CursorAfter(recs, n) ==
    IF n = 0 THEN 0 ELSE CursorAfter(recs, n - 1) + recs[n].Signature_size

\* C21: a constructed record's Signature_size is the length of its Serialize
\* output (24 for an EUI record, 86 for a component record), so that in a
\* file of such records the cursor advanced by Signature_size stands on the
\* first byte of each next record and at the end of the last one
C21_SizeIsSerializedLength ==
    /\ codec.op = "roundTrip"
          => codec.recs[1].Signature_size = Len(Serialize(codec.recs[1]))
    /\ (codec.op = "construct" /\ codec.err = "")
          => codec.sigs[1].Signature_size = Len(Serialize(codec.sigs[1]))
    /\ (parts.recs # <<>> /\ parts.invoked = <<>> /\ parts.odd = NoOdd)
          => /\ \A i \in 1..Len(parts.recs) :
                   SubSeq(blob, CursorAfter(parts.recs, i - 1) + 1,
                          CursorAfter(parts.recs, i))
                       = Encoded[parts.recs[i]]
             /\ CursorAfter(parts.recs, Len(parts.recs)) + Len(parts.tail)
                    = Len(blob)

C21_Witness ==
    /\ Len(parts.recs) = 2
    /\ parts.invoked = <<>> /\ parts.odd = NoOdd
    /\ IsEuiSig(parts.recs[1]) /\ ~IsEuiSig(parts.recs[2])
    /\ CursorAfter(parts.recs, 1) = 24
    /\ SubSeq(blob, 25, 24 + 86) = Encoded[parts.recs[2]]

\* C22: readSigsFromFile does not index out of range, whatever is left of
\* the file at the cursor: it returns records or an error
C22_NeverOutOfRange ==
    codec.op \in {"reading", "readSigs"} => ~codec.panic

\* C23: readSigsFromFile terminates on every file, those included on which
\* the 16-bit cursor or uint16(len(sigdata_in)) wraps modulo 2^16: a pass
\* that does not return leaves the cursor beyond where it found it, so the
\* read never comes back to a state it has been in
C23_Terminates ==
    [][(codec.op = "reading" /\ codec'.op = "reading")
          => codec'.arg[3] > codec.arg[3]]_vars

-----------------------------------------------------------------------------
(* Claims about the signature directory and the license files *)

\* C24: with runs of the board flow that may be killed at any step, every
\* identifier that markEui has annotated in the ledger has its signature
\* file in the signature directory
C24_MarkedHasSigfile ==
    \A e \in used : sig[e].ex

\* the step is the write of ioutil.WriteFile into the file it has just
\* created: the run that created the file f of the directory fills it
OwnWrite(f) ==
    /\ f.ex /\ f.data = <<>>
    /\ At(f.by, "write_sig")
    /\ run[f.by].fd = f.by

\* C25: the board flow does not overwrite or delete a signature file that
\* exists: the file changes only by being moved to <file>.bak, and a .bak
\* file that exists is never changed
C25_SigfilePreserved ==
    [][\A e \in SysIds :
          /\ (sig[e].ex /\ sig'[e] # sig[e] /\ ~OwnWrite(sig[e]))
                => (~bak[e].ex /\ bak'[e] = sig[e])
          /\ (bak[e].ex /\ ~OwnWrite(bak[e])) => bak'[e] = bak[e]]_vars

\* the entries main can be given that parseEui accepts, and their identifiers
LicEntries ==
    LicOptEui \cup UNION {{l[i] : i \in 1..Len(l)} : l \in LicEuiLists}
LicParsed ==
    {parseEui(s).eui : s \in {t \in LicEntries : parseEui(t).err = ""}}

\* C26: a license is signed and a license file is written only for an
\* identifier that parseEui returned without error for an entry of the
\* input; an entry that does not parse (a comment, an empty last line) gets
\* no license, in particular none for the identifier 0
C26_LicenseOnlyForParsed ==
    /\ \A e \in LicIds : lic.files[e].ex => e \in LicParsed
    /\ lic.last # NoSigned => lic.last.in[1] \in LicParsed

-----------------------------------------------------------------------------
(* Claims about the loop of generate *)

\* the data lines written so far, without the range comment
GenWritten == Tail(ledger.lines)

\* C27: for a range with first <= last, the highest identifier included,
\* generate writes the lines of first, first+1, ... in ascending order and
\* none for an identifier outside the range, and it returns without error
\* with the line of last as the last one written
C27_WritesExactlyTheRange ==
    (call.op \in {"generating", "generate"} /\ LeqEui(gen[1], gen[2])) =>
        /\ \A i \in 1..Len(GenWritten) :
              /\ GenWritten[i].f[1] = Hex16(PlusEui(gen[1], i - 1))
              /\ LeqEui(gen[1], PlusEui(gen[1], i - 1))
              /\ LeqEui(PlusEui(gen[1], i - 1), gen[2])
        /\ call.op = "generate" =>
              /\ call.err = ""
              /\ GenWritten # <<>>
              /\ GenWritten[Len(GenWritten)].f[1] = Hex16(gen[2])

=============================================================================
